---- MODULE Spec2Model ----
(***************************************************************************)
(* TodoService (todo-app/src/app/services/todo.service.ts): the in-memory  *)
(* store of the todo application, its two BehaviorSubjects, the derived    *)
(* activeTodos$ stream and the observers subscribed to them; the two       *)
(* TodoDetailComponent classes of components/todo-detail/todo-detail.ts    *)
(* (one reads selectedTodo$, the other the 'id' parameter of its route);   *)
(* the navigation of TodoListComponent through the route table.            *)
(*                                                                         *)
(* Texts (title, description) are sequences of one-character strings, ids  *)
(* are strings, dates are day numbers.                                     *)
(***************************************************************************)
EXTENDS Integers, Sequences, FiniteSets

VARIABLES
  todos,          \* todosSubject.value: the collection, a sequence of Todo
  selectedTodo,   \* selectedTodoSubject.value: a Todo, or Null
  nextId,         \* TodoService.nextId
  subscription,   \* observer -> the stream it is subscribed to, or "none"
  seen,           \* observer -> <<the last value its callback received>>, or <<>>
  got,            \* observer -> number of values it received in the last call
  todosNexts,     \* number of todosSubject.next calls made by the last call
  selectedNexts,  \* number of selectedTodoSubject.next calls made by the last call
  lastCall,       \* name of the last operation that ran
  detail,         \* the TodoDetailComponent on screen, or Closed
  routed          \* what the router resolved the last navigation to

vars == <<todos, selectedTodo, nextId, subscription, seen, got,
          todosNexts, selectedNexts, lastCall, detail, routed>>

-----------------------------------------------------------------------------
(* Bounds of the model *)

\* addTodo is disabled once the collection holds MaxTodos records
MaxTodos == 3

-----------------------------------------------------------------------------
(* Values *)

\* Todo['status']
Statuses == {"open", "done", "deleted"}

\* the fields a TodoUpdateRequest may carry
UpdateFields == {"title", "description", "status"}

\* selectedTodoSubject's null
Null == [id |-> "null"]

\* new Date('2024-01-15'), new Date('2024-01-16'), as day numbers
SeedDate1 == 20240115
SeedDate2 == 20240116

\* what new Date() may return after the seeding
FirstDate == 20240117
Dates == {FirstDate, 20240118}

LearnAngular == <<"L","e","a","r","n"," ","A","n","g","u","l","a","r">>
BuyGroceries == <<"B","u","y"," ","g","r","o","c","e","r","i","e","s">>
LearnAngularDescription ==
  <<"C","o","m","p","l","e","t","e"," ","t","h","e"," ","A","n","g","u","l","a","r"," ",
    "t","u","t","o","r","i","a","l"," ","a","n","d"," ","b","u","i","l","d"," ","a"," ",
    "t","o","d","o"," ","a","p","p">>
BuyGroceriesDescription ==
  <<"M","i","l","k",","," ","e","g","g","s",","," ","b","r","e","a","d",","," ",
    "a","n","d"," ","v","e","g","e","t","a","b","l","e","s">>

\* Number.prototype.toString(): the decimal digits of n
RECURSIVE ToString(_)
ToString(n) ==
  LET digit == <<"0","1","2","3","4","5","6","7","8","9">>
  IN  IF n < 10 THEN digit[n + 1]
      ELSE ToString(n \div 10) \o digit[(n % 10) + 1]

\* sampleTodos of initializeWithSampleData
SampleTodos ==
  << [id |-> "1", title |-> LearnAngular, description |-> LearnAngularDescription,
      creationDate |-> SeedDate1, status |-> "open"],
     [id |-> "2", title |-> BuyGroceries, description |-> BuyGroceriesDescription,
      creationDate |-> SeedDate2, status |-> "done"] >>

\* mutant of FirstFreeId: nextId keeps the value of its declaration
FirstFreeIdOne == 1

\* the value nextId has after initializeWithSampleData
FirstFreeId == 3

-----------------------------------------------------------------------------
(* Inputs *)

\* ids passed to the store: every id the counter can give, and one it never gives
Ids == {ToString(n) : n \in 1..MaxTodos} \cup {"missing-id"}

TitleX == <<"x">>
DescriptionY == <<"y", " ">>

\* TodoCreateRequest values
FirstRequest == [title |-> <<"a">>, description |-> <<"d">>]
AddRequests == {FirstRequest, [title |-> <<" ","b">>, description |-> <<>>]}

\* TodoUpdateRequest values that carry a status only, and the empty request
StatusRequests ==
  {[f \in {"status"} |-> s] : s \in Statuses} \cup {[f \in {} |-> "open"]}

\* TodoUpdateRequest values passed to updateSelectedTodo by a detail view
SelectedRequests == {[title |-> TitleX], [status |-> "done"]}

\* TodoUpdateRequest values: every subset of the three optional fields
UpdateRequests ==
  { [f \in fs |-> CASE f = "title" -> TitleX
                    [] f = "description" -> DescriptionY
                    [] OTHER -> "deleted"] : fs \in SUBSET UpdateFields }

\* route.paramMap.get('id') when the route has no 'id' parameter
NoParam == ""

\* the sentinel 'id' of the route that creates a todo
NewParam == "new"

\* the 'id' parameters a TodoDetailComponent is created with
RouteIds == {"1", NewParam, NoParam}

\* what the user types as a title: blank, and a text with a space before it
FormTitles == {<<" ">>, <<" ", "b">>}

\* what the user types as a description: blank, and a text with a space after
FormDescriptions == {<<" ">>, <<"d", " ">>}

Observers == {"o1", "o2"}

\* the public streams of the service
Streams == {"todos$", "activeTodos$", "selectedTodo$"}

\* the streams fed by todosSubject
TodoStreams == {"todos$", "activeTodos$"}

-----------------------------------------------------------------------------
(* Pure parts of the service *)

\* { ...todo, ...updates }
Spread(todo, updates) ==
  [f \in DOMAIN todo \cup DOMAIN updates |->
     IF f \in DOMAIN updates THEN updates[f] ELSE todo[f]]

\* mutant of ActiveTodos: the filter keeps every record
ActiveTodosAll(ts) == ts

\* todos.filter(todo => todo.status !== 'deleted')
ActiveTodos(ts) == SelectSeq(ts, LAMBDA todo : todo.status # "deleted")

\* todos.findIndex(t => t.id === id) + 1: the first match, 0 when there is none
FindIndex(ts, id) ==
  IF \E i \in 1..Len(ts) : ts[i].id = id
  THEN CHOOSE i \in 1..Len(ts) :
         /\ ts[i].id = id
         /\ \A j \in 1..(i - 1) : ts[j].id # id
  ELSE 0

\* mutant of UpdatedTodos: the updates are applied to every record
UpdatedTodosAll(ts, id, updates) ==
  [i \in 1..Len(ts) |-> Spread(ts[i], updates)]

\* mutant of UpdatedTodos: a record is created when none has the id
UpdatedTodosUpsert(ts, id, updates) ==
  IF \E i \in 1..Len(ts) : ts[i].id = id
  THEN [i \in 1..Len(ts) |-> IF ts[i].id = id THEN Spread(ts[i], updates) ELSE ts[i]]
  ELSE Append(ts, Spread([id |-> id, title |-> <<>>, description |-> <<>>,
                          creationDate |-> FirstDate, status |-> "open"], updates))

\* mutant of UpdatedTodos: the updated record gets a new creationDate
UpdatedTodosRestamped(ts, id, updates) ==
  [i \in 1..Len(ts) |->
     IF ts[i].id = id
     THEN [Spread(ts[i], updates) EXCEPT !.creationDate = FirstDate]
     ELSE ts[i]]

\* currentTodos.map(todo => todo.id === id ? { ...todo, ...updates } : todo)
UpdatedTodos(ts, id, updates) ==
  [i \in 1..Len(ts) |-> IF ts[i].id = id THEN Spread(ts[i], updates) ELSE ts[i]]

\* mutant of NewTodo: title and description are swapped
NewTodoSwapped(request, now) ==
  [id |-> ToString(nextId), title |-> request.description,
   description |-> request.title, creationDate |-> now, status |-> "open"]

\* newTodo of addTodo
NewTodo(request, now) ==
  [id |-> ToString(nextId), title |-> request.title,
   description |-> request.description, creationDate |-> now, status |-> "open"]

\* what a subscriber of the stream receives when the subject holds (ts, sel)
View(stream, ts, sel) ==
  CASE stream = "todos$" -> ts
    [] stream = "activeTodos$" -> ActiveTodos(ts)
    [] stream = "selectedTodo$" -> sel

Last(s) == s[Len(s)]

\* todos.find(todo => todo.id === id): the first match, Null for undefined
FindTodo(ts, id) ==
  IF FindIndex(ts, id) # 0 THEN ts[FindIndex(ts, id)] ELSE Null

-----------------------------------------------------------------------------
(* TodoDetailComponent: its fields and the callbacks it subscribes *)

\* the characters String.prototype.trim removes
Whitespace == {" "}

RECURSIVE TrimStart(_)
TrimStart(s) ==
  IF s # <<>> /\ s[1] \in Whitespace THEN TrimStart(Tail(s)) ELSE s

RECURSIVE TrimEnd(_)
TrimEnd(s) ==
  IF s # <<>> /\ s[Len(s)] \in Whitespace
  THEN TrimEnd(SubSeq(s, 1, Len(s) - 1))
  ELSE s

\* mutant of Trim: the text is taken as typed
TrimNothing(s) == s

\* String.prototype.trim
Trim(s) == TrimEnd(TrimStart(s))

\* editForm as the component declares it
EmptyForm == [title |-> <<>>, description |-> <<>>, status |-> "open"]

\* { title: todo.title, description: todo.description, status: todo.status }
FormOf(todo) ==
  [title |-> todo.title, description |-> todo.description, status |-> todo.status]

\* no TodoDetailComponent is on screen
Closed ==
  [kind |-> "none", routeId |-> NoParam, isNewTodo |-> FALSE, isEditing |-> FALSE,
   editForm |-> EmptyForm, resetting |-> FALSE]

\* editForm.title.trim() && editForm.description.trim()
DraftIsValid(d) ==
  Trim(d.editForm.title) # <<>> /\ Trim(d.editForm.description) # <<>>

\* createRequest of saveTodo
CreateRequestOf(d) ==
  [title |-> Trim(d.editForm.title), description |-> Trim(d.editForm.description)]

\* updateRequest of saveTodo
UpdateRequestOf(d) ==
  [title |-> Trim(d.editForm.title), description |-> Trim(d.editForm.description),
   status |-> d.editForm.status]

\* the callback ngOnInit subscribes to selectedTodo$ (first class)
SelectionOnInit(d, todo) ==
  IF todo # Null /\ ~ d.isEditing
  THEN [d EXCEPT !.isNewTodo = FALSE, !.editForm = FormOf(todo)]
  ELSE IF todo = Null
  THEN [d EXCEPT !.isNewTodo = TRUE, !.isEditing = TRUE, !.editForm = EmptyForm]
  ELSE d

\* the function ngOnInit gives to switchMap (second class): it runs for
\* each subscription to todo$
RouteParams(d) ==
  IF d.routeId = NewParam
  THEN [d EXCEPT !.isNewTodo = TRUE, !.isEditing = TRUE, !.editForm = EmptyForm]
  ELSE IF d.routeId # NoParam
  THEN [d EXCEPT !.isNewTodo = FALSE]
  ELSE d

\* the callback ngOnInit subscribes to todo$ (second class)
RouteOnInit(d, todo) ==
  IF todo # Null /\ ~ d.isEditing THEN [d EXCEPT !.editForm = FormOf(todo)] ELSE d

\* the callback cancelEditing subscribes to todo$ and never unsubscribes
ResetDraft(d, todo) ==
  IF todo # Null THEN [d EXCEPT !.editForm = FormOf(todo)] ELSE d

\* the value todo$ of the component holds when the service holds (ts, sel)
TodoOf(d, ts, sel) ==
  CASE d.kind = "selection" -> sel
    [] d.kind = "route" ->
         IF d.routeId \in {NewParam, NoParam} THEN Null ELSE FindTodo(ts, d.routeId)
    [] OTHER -> Null

\* the component after its subscriptions have received the values the
\* service emitted: the callback of ngOnInit first, then those of cancelEditing
Delivered(d, ts, sel, todosEmitted, selectedEmitted) ==
  LET hears == \/ d.kind = "selection" /\ selectedEmitted
               \/ /\ d.kind = "route" /\ todosEmitted
                  /\ d.routeId \notin {NewParam, NoParam}
      todo  == TodoOf(d, ts, sel)
      first == IF d.kind = "selection" THEN SelectionOnInit(d, todo)
               ELSE RouteOnInit(d, todo)
  IN  IF ~ hears THEN d
      ELSE IF d.resetting THEN ResetDraft(first, todo)
      ELSE first

-----------------------------------------------------------------------------
(* The two BehaviorSubjects *)

OnTodos(o) == subscription[o] \in TodoStreams
OnSelected(o) == subscription[o] = "selectedTodo$"

\* the value todosSubject holds after it was given the values of todosEmits
AfterTodos(todosEmits) == IF todosEmits = <<>> THEN todos ELSE Last(todosEmits)

\* the value selectedTodoSubject holds after it was given selectedEmits
AfterSelected(selectedEmits) ==
  IF selectedEmits = <<>> THEN selectedTodo ELSE Last(selectedEmits)

\* One call that passes the values of todosEmits, in order, to
\* todosSubject.next and then those of selectedEmits to
\* selectedTodoSubject.next: each subject keeps the last value it was given
\* and hands every value to each of its current subscribers.
Service(call, todosEmits, selectedEmits) ==
  LET ts  == AfterTodos(todosEmits)
      sel == AfterSelected(selectedEmits)
  IN  /\ todos' = ts
      /\ selectedTodo' = sel
      /\ todosNexts' = Len(todosEmits)
      /\ selectedNexts' = Len(selectedEmits)
      /\ seen' = [o \in Observers |->
                    IF \/ OnTodos(o) /\ todosEmits # <<>>
                       \/ OnSelected(o) /\ selectedEmits # <<>>
                    THEN <<View(subscription[o], ts, sel)>>
                    ELSE seen[o]]
      /\ got' = [o \in Observers |->
                   IF OnTodos(o) THEN Len(todosEmits)
                   ELSE IF OnSelected(o) THEN Len(selectedEmits)
                   ELSE 0]
      /\ lastCall' = call
      /\ UNCHANGED subscription

\* a call of the service made from outside the detail component: the
\* component on screen hears it through its subscriptions
Emit(call, todosEmits, selectedEmits) ==
  /\ Service(call, todosEmits, selectedEmits)
  /\ detail' = Delivered(detail, AfterTodos(todosEmits), AfterSelected(selectedEmits),
                         todosEmits # <<>>, selectedEmits # <<>>)
  /\ UNCHANGED routed

\* mutant of subscribe: the subject replays nothing (a plain Subject)
subscribeNoReplay(o, stream) ==
  /\ subscription[o] = "none"
  /\ subscription' = [subscription EXCEPT ![o] = stream]
  /\ seen' = seen
  /\ got' = [p \in Observers |-> 0]
  /\ todosNexts' = 0
  /\ selectedNexts' = 0
  /\ lastCall' = "subscribe"
  /\ UNCHANGED <<todos, selectedTodo, nextId, detail, routed>>

\* stream.subscribe(callback): the subject replays its current value
subscribe(o, stream) ==
  /\ subscription[o] = "none"
  /\ subscription' = [subscription EXCEPT ![o] = stream]
  /\ seen' = [seen EXCEPT ![o] = <<View(stream, todos, selectedTodo)>>]
  /\ got' = [p \in Observers |-> IF p = o THEN 1 ELSE 0]
  /\ todosNexts' = 0
  /\ selectedNexts' = 0
  /\ lastCall' = "subscribe"
  /\ UNCHANGED <<todos, selectedTodo, nextId, detail, routed>>

\* subscription.unsubscribe()
unsubscribe(o) ==
  /\ subscription[o] # "none"
  /\ subscription' = [subscription EXCEPT ![o] = "none"]
  /\ seen' = [seen EXCEPT ![o] = <<>>]
  /\ got' = [p \in Observers |-> 0]
  /\ todosNexts' = 0
  /\ selectedNexts' = 0
  /\ lastCall' = "unsubscribe"
  /\ UNCHANGED <<todos, selectedTodo, nextId, detail, routed>>

-----------------------------------------------------------------------------
(* The operations of TodoService *)

\* mutant of updateTodoEmits: nothing is emitted when no record has the id
updateTodoEmitsIfFound(ts, id, updates) ==
  IF FindIndex(ts, id) # 0 THEN << UpdatedTodos(ts, id, updates) >> ELSE <<>>

\* the values updateTodo(id, updates) passes to todosSubject.next when the
\* subject holds ts
updateTodoEmits(ts, id, updates) == << UpdatedTodos(ts, id, updates) >>

\* mutant of deleteTodoEmits: the record is removed from the collection
deleteTodoEmitsRemoving(ts, id) ==
  << SelectSeq(ts, LAMBDA todo : todo.id # id) >>

\* mutant of deleteTodoEmits: deleting a deleted record restores it
deleteTodoEmitsFlipping(ts, id) ==
  LET i == FindIndex(ts, id)
  IN  IF i # 0 /\ ts[i].status = "deleted"
      THEN << UpdatedTodos(ts, id, [status |-> "open"]) >>
      ELSE << UpdatedTodos(ts, id, [status |-> "deleted"]) >>

\* the values deleteTodo(id) passes to todosSubject.next
deleteTodoEmits(ts, id) == updateTodoEmits(ts, id, [status |-> "deleted"])

\* mutant of toggleTodoStatusEmits: the status is not tested for 'deleted'
toggleTodoStatusEmitsUnguarded(ts, id) ==
  LET i == FindIndex(ts, id)
  IN  IF i # 0
      THEN << UpdatedTodos(ts, id,
                [status |-> IF ts[i].status = "open" THEN "done" ELSE "open"]) >>
      ELSE <<>>

\* the values toggleTodoStatus(id) passes to todosSubject.next
toggleTodoStatusEmits(ts, id) ==
  LET i == FindIndex(ts, id)
  IN  IF i # 0 /\ ts[i].status # "deleted"
      THEN updateTodoEmits(ts, id,
             [status |-> IF ts[i].status = "open" THEN "done" ELSE "open"])
      ELSE <<>>

\* mutant of addTodo: nextId is not incremented
addTodoKeepsNextId(request, now) ==
  /\ Len(todos) < MaxTodos
  /\ nextId' = nextId
  /\ Emit("addTodo", << Append(todos, NewTodo(request, now)) >>, <<>>)

\* mutant of addTodo: the new record is put first
addTodoPrepends(request, now) ==
  /\ Len(todos) < MaxTodos
  /\ nextId' = nextId + 1
  /\ Emit("addTodo", << <<NewTodo(request, now)>> \o todos >>, <<>>)

addTodo(request, now) ==
  /\ Len(todos) < MaxTodos
  /\ nextId' = nextId + 1
  /\ Emit("addTodo", << Append(todos, NewTodo(request, now)) >>, <<>>)

updateTodo(id, updates) ==
  /\ Emit("updateTodo", updateTodoEmits(todos, id, updates), <<>>)
  /\ UNCHANGED nextId

\* mutant of deleteTodo: deleting the selected todo clears the selection
deleteTodoClearsSelection(id) ==
  /\ IF selectedTodo # Null /\ selectedTodo.id = id
     THEN Emit("deleteTodo", deleteTodoEmits(todos, id), <<Null>>)
     ELSE Emit("deleteTodo", deleteTodoEmits(todos, id), <<>>)
  /\ UNCHANGED nextId

deleteTodo(id) ==
  /\ Emit("deleteTodo", deleteTodoEmits(todos, id), <<>>)
  /\ UNCHANGED nextId

toggleTodoStatus(id) ==
  /\ Emit("toggleTodoStatus", toggleTodoStatusEmits(todos, id), <<>>)
  /\ UNCHANGED nextId

selectTodo(todo) ==
  /\ Emit("selectTodo", <<>>, <<todo>>)
  /\ UNCHANGED nextId

clearSelectedTodo ==
  /\ Emit("clearSelectedTodo", <<>>, <<Null>>)
  /\ UNCHANGED nextId

\* mutant of deleteSelectedTodo: the selection is not cleared
deleteSelectedTodoKeepsSelection ==
  /\ IF selectedTodo # Null
     THEN Emit("deleteSelectedTodo", deleteTodoEmits(todos, selectedTodo.id), <<>>)
     ELSE Emit("deleteSelectedTodo", <<>>, <<>>)
  /\ UNCHANGED nextId

deleteSelectedTodo ==
  /\ IF selectedTodo # Null
     THEN Emit("deleteSelectedTodo", deleteTodoEmits(todos, selectedTodo.id), <<Null>>)
     ELSE Emit("deleteSelectedTodo", <<>>, <<>>)
  /\ UNCHANGED nextId

updateSelectedTodo(updates) ==
  /\ IF selectedTodo # Null
     THEN Emit("updateSelectedTodo", updateTodoEmits(todos, selectedTodo.id, updates),
               << Spread(selectedTodo, updates) >>)
     ELSE Emit("updateSelectedTodo", <<>>, <<>>)
  /\ UNCHANGED nextId

-----------------------------------------------------------------------------
(* The router and the route table *)

\* a route that redirects nowhere
NoRedirect == <<"no redirect">>

\* segments of a route path that stand for a parameter
ParamSegments == {":id"}

\* the path that matches every url
Wildcard == <<"**">>

\* routes of the application, in the order the router tries them
Routes ==
  << [path |-> <<>>, component |-> "TodoListComponent", redirectTo |-> NoRedirect],
     [path |-> <<"todo">>, component |-> "TodoDetailComponent", redirectTo |-> NoRedirect],
     [path |-> Wildcard, component |-> "none", redirectTo |-> <<>>] >>

\* a route without children matches a url when its path consumes every
\* segment of the url, a parameter segment consuming any one segment
Matches(route, url) ==
  \/ route.path = Wildcard
  \/ /\ Len(route.path) = Len(url)
     /\ \A i \in 1..Len(url) :
          route.path[i] \in ParamSegments \/ route.path[i] = url[i]

\* the first route of the table that matches the url
FirstMatch(url) ==
  Routes[CHOOSE i \in 1..Len(Routes) :
           /\ Matches(Routes[i], url)
           /\ \A j \in 1..(i - 1) : ~ Matches(Routes[j], url)]

\* the url and the component the router ends at, redirects followed
RECURSIVE Resolve(_)
Resolve(url) ==
  LET route == FirstMatch(url)
  IN  IF route.redirectTo # NoRedirect
      THEN Resolve(route.redirectTo)
      ELSE [url |-> url, component |-> route.component]

\* router.navigate(commands): the commands without the leading '/'
navigate(url) == routed' = Resolve(url)

-----------------------------------------------------------------------------
(* The handlers of TodoListComponent *)

\* the list is on screen when no detail component is
onTodoClick(todo) ==
  /\ detail = Closed
  /\ navigate(<<"todo", todo.id>>)
  /\ Service("onTodoClick", <<>>, <<>>)
  /\ UNCHANGED <<nextId, detail>>

onAddNewTodo ==
  /\ detail = Closed
  /\ navigate(<<"todo", NewParam>>)
  /\ Service("onAddNewTodo", <<>>, <<>>)
  /\ UNCHANGED <<nextId, detail>>

onToggleStatus(todo) ==
  /\ detail = Closed
  /\ Service("onToggleStatus", toggleTodoStatusEmits(todos, todo.id), <<>>)
  /\ UNCHANGED <<nextId, detail, routed>>

onDeleteTodo(todo) ==
  /\ detail = Closed
  /\ Service("onDeleteTodo", deleteTodoEmits(todos, todo.id), <<>>)
  /\ UNCHANGED <<nextId, detail, routed>>

-----------------------------------------------------------------------------
(* The handlers of the two TodoDetailComponent classes *)

\* where the router shows a TodoDetailComponent
ActivatedAt(url) == [url |-> url, component |-> "TodoDetailComponent"]

\* the first class is created and its ngOnInit subscribes to selectedTodo$,
\* which replays the selection to it
openSelection ==
  /\ detail = Closed
  /\ detail' = SelectionOnInit([Closed EXCEPT !.kind = "selection"], selectedTodo)
  /\ routed' = ActivatedAt(<<"todo">>)
  /\ Service("ngOnInit", <<>>, <<>>)
  /\ UNCHANGED nextId

\* the second class is created with an ActivatedRoute whose paramMap gives id
\* for 'id'; its ngOnInit builds todo$ and subscribes to it
openRoute(id) ==
  /\ detail = Closed
  /\ LET d == RouteParams([Closed EXCEPT !.kind = "route", !.routeId = id])
     IN  detail' = RouteOnInit(d, TodoOf(d, todos, selectedTodo))
  /\ routed' = ActivatedAt(IF id = NoParam THEN <<"todo">> ELSE <<"todo", id>>)
  /\ Service("ngOnInit", <<>>, <<>>)
  /\ UNCHANGED nextId

startEditing ==
  /\ detail # Closed
  /\ detail' = [detail EXCEPT !.isEditing = TRUE]
  /\ Service("startEditing", <<>>, <<>>)
  /\ UNCHANGED <<nextId, routed>>

\* the user types in a field of the form, which is bound to editForm
inputTitle(text) ==
  /\ detail # Closed /\ detail.isEditing
  /\ detail' = [detail EXCEPT !.editForm.title = text]
  /\ Service("inputTitle", <<>>, <<>>)
  /\ UNCHANGED <<nextId, routed>>

inputDescription(text) ==
  /\ detail # Closed /\ detail.isEditing
  /\ detail' = [detail EXCEPT !.editForm.description = text]
  /\ Service("inputDescription", <<>>, <<>>)
  /\ UNCHANGED <<nextId, routed>>

inputStatus(status) ==
  /\ detail # Closed /\ detail.isEditing
  /\ detail' = [detail EXCEPT !.editForm.status = status]
  /\ Service("inputStatus", <<>>, <<>>)
  /\ UNCHANGED <<nextId, routed>>

\* what goBack passes to selectedTodoSubject.next: the first class calls
\* clearSelectedTodo, the second class calls nothing of the service
goBackEmits(d) == IF d.kind = "selection" THEN <<Null>> ELSE <<>>

goBack ==
  /\ detail # Closed
  /\ Service("goBack", <<>>, goBackEmits(detail))
  /\ navigate(<<>>)
  /\ detail' = Closed
  /\ UNCHANGED nextId

\* isEditing = false; goBack() for a new todo; then one more subscription to
\* todo$, never unsubscribed, that copies every todo it receives into editForm
cancelEditing ==
  /\ detail # Closed
  /\ LET d1 == [detail EXCEPT !.isEditing = FALSE]
         selectedEmits == IF d1.isNewTodo THEN goBackEmits(d1) ELSE <<>>
         sel == AfterSelected(selectedEmits)
         d2  == Delivered(d1, todos, sel, FALSE, selectedEmits # <<>>)
         d3  == IF d2.kind = "route" THEN RouteParams(d2) ELSE d2
         d4  == ResetDraft(d3, TodoOf(d3, todos, sel))
     IN  /\ Service("cancelEditing", <<>>, selectedEmits)
         /\ detail' = IF d1.isNewTodo THEN Closed ELSE [d4 EXCEPT !.resetting = TRUE]
         /\ routed' = IF d1.isNewTodo THEN Resolve(<<>>) ELSE routed
  /\ UNCHANGED nextId

\* the id saveTodo and deleteTodo of the component act on: the id of the todo
\* that todo$ replays (first class), the 'id' of the route snapshot (second)
TargetId(d) ==
  IF d.kind = "selection"
  THEN IF selectedTodo # Null THEN selectedTodo.id ELSE NoParam
  ELSE d.routeId

saveTodo(now) ==
  /\ detail # Closed
  /\ LET creates == detail.isNewTodo /\ DraftIsValid(detail)
         updates == ~ detail.isNewTodo /\ TargetId(detail) # NoParam /\ DraftIsValid(detail)
         todosEmits ==
           IF creates THEN << Append(todos, NewTodo(CreateRequestOf(detail), now)) >>
           ELSE IF updates
           THEN updateTodoEmits(todos, TargetId(detail), UpdateRequestOf(detail))
           ELSE <<>>
         selectedEmits == IF creates THEN goBackEmits(detail) ELSE <<>>
         heard == Delivered(detail, AfterTodos(todosEmits), selectedTodo,
                            todosEmits # <<>>, FALSE)
     IN  /\ creates => Len(todos) < MaxTodos
         /\ Service("saveTodo", todosEmits, selectedEmits)
         /\ nextId' = IF creates THEN nextId + 1 ELSE nextId
         /\ detail' = IF creates THEN Closed
                      ELSE IF updates THEN [heard EXCEPT !.isEditing = FALSE]
                      ELSE detail
         /\ routed' = IF creates THEN Resolve(<<>>) ELSE routed

\* deleteTodo of the component
detailDeleteTodo ==
  /\ detail # Closed
  /\ LET deletes == TargetId(detail) # NoParam /\ ~ detail.isNewTodo
     IN  /\ IF deletes
            THEN Service("detailDeleteTodo", deleteTodoEmits(todos, TargetId(detail)),
                         goBackEmits(detail))
            ELSE Service("detailDeleteTodo", <<>>, <<>>)
         /\ detail' = IF deletes THEN Closed ELSE detail
         /\ routed' = IF deletes THEN Resolve(<<>>) ELSE routed
  /\ UNCHANGED nextId

-----------------------------------------------------------------------------
(* Specifications *)

\* the service after its constructor, nobody subscribed yet
Init ==
  /\ todos = SampleTodos
  /\ selectedTodo = Null
  /\ nextId = FirstFreeId
  /\ subscription = [o \in Observers |-> "none"]
  /\ seen = [o \in Observers |-> <<>>]
  /\ got = [o \in Observers |-> 0]
  /\ todosNexts = 0
  /\ selectedNexts = 0
  /\ lastCall = "constructor"
  /\ detail = Closed
  /\ routed = Resolve(<<>>)

\* every operation of the service, with update requests that carry a status
Next ==
  \/ \E now \in Dates : addTodo(FirstRequest, now)
  \/ \E id \in Ids, updates \in StatusRequests : updateTodo(id, updates)
  \/ \E id \in Ids : deleteTodo(id)
  \/ \E id \in Ids : toggleTodoStatus(id)
  \/ \E i \in 1..Len(todos) : selectTodo(todos[i])
  \/ clearSelectedTodo
  \/ deleteSelectedTodo
  \/ \E updates \in StatusRequests : updateSelectedTodo(updates)

Spec == Init /\ [][Next]_vars

\* addTodo and updateTodo, with update requests that carry every subset of
\* the fields
NextUpdate ==
  \/ addTodo(FirstRequest, FirstDate)
  \/ \E id \in Ids, updates \in UpdateRequests : updateTodo(id, updates)

SpecUpdate == Init /\ [][NextUpdate]_vars

\* the operations on the collection while observers subscribe to the streams
\* fed by todosSubject and unsubscribe from them
NextNotify ==
  \/ \E o \in Observers, stream \in TodoStreams : subscribe(o, stream)
  \/ \E o \in Observers : unsubscribe(o)
  \/ \E request \in AddRequests : addTodo(request, FirstDate)
  \/ \E id \in Ids, updates \in StatusRequests : updateTodo(id, updates)
  \/ \E id \in Ids : deleteTodo(id)
  \/ \E id \in Ids : toggleTodoStatus(id)

SpecNotify == Init /\ [][NextNotify]_vars

\* the operations on the selection and on the records that are there, while
\* observers subscribe to any of the three streams and unsubscribe
NextSelected ==
  \/ \E o \in Observers, stream \in Streams : subscribe(o, stream)
  \/ \E o \in Observers : unsubscribe(o)
  \/ \E i \in 1..Len(todos) : selectTodo(todos[i])
  \/ clearSelectedTodo
  \/ deleteSelectedTodo
  \/ \E updates \in SelectedRequests : updateSelectedTodo(updates)
  \/ \E id \in Ids : updateTodo(id, [status |-> "open"])
  \/ \E id \in Ids : deleteTodo(id)
  \/ \E id \in Ids : toggleTodoStatus(id)

SpecSelected == Init /\ [][NextSelected]_vars

\* one TodoDetailComponent at a time, of either class, opened on the
\* selection (the first todo or none) or, with nothing selected, on a route
\* parameter, then edited, saved, cancelled and closed
NextDetail ==
  \/ detail = Closed /\ selectTodo(todos[1])
  \/ openSelection
  \/ selectedTodo = Null /\ \E id \in RouteIds : openRoute(id)
  \/ startEditing
  \/ \E text \in FormTitles : inputTitle(text)
  \/ \E text \in FormDescriptions : inputDescription(text)
  \/ inputStatus("done")
  \/ cancelEditing
  \/ saveTodo(FirstDate)
  \/ detailDeleteTodo
  \/ goBack

SpecDetail == Init /\ [][NextDetail]_vars

\* the list on screen: its four handlers, and the detail component of the
\* first class shown at its route and left again
NextRouter ==
  \/ \E i \in 1..Len(ActiveTodos(todos)) : onTodoClick(ActiveTodos(todos)[i])
  \/ onAddNewTodo
  \/ \E i \in 1..Len(ActiveTodos(todos)) : onToggleStatus(ActiveTodos(todos)[i])
  \/ \E i \in 1..Len(ActiveTodos(todos)) : onDeleteTodo(ActiveTodos(todos)[i])
  \/ detail = Closed /\ addTodo(FirstRequest, FirstDate)
  \/ openSelection
  \/ goBack

SpecRouter == Init /\ [][NextRouter]_vars

\* a detail component of either class on the first todo, edited, cancelled
\* and saved while the service is called from elsewhere and emits
NextEditing ==
  \/ detail = Closed /\ selectTodo(todos[1])
  \/ openSelection
  \/ selectedTodo = Null /\ openRoute("1")
  \/ startEditing
  \/ \E text \in FormTitles : inputTitle(text)
  \/ cancelEditing
  \/ saveTodo(FirstDate)
  \/ goBack
  \/ \E id \in Ids : toggleTodoStatus(id)
  \/ updateSelectedTodo([status |-> "done"])

SpecEditing == Init /\ [][NextEditing]_vars

-----------------------------------------------------------------------------
(* Properties *)

\* the positions of the collection
Positions(ts) == 1..Len(ts)

\* some record of ts has the id
HasId(ts, id) == \E i \in Positions(ts) : ts[i].id = id

\* the ids of the records of ts
IdsOf(ts) == {ts[i].id : i \in Positions(ts)}

\* the positions of the records of ts that are not deleted
ActivePositions(ts) == {i \in Positions(ts) : ts[i].status # "deleted"}

\* v holds exactly the records of ts that are not deleted, in the order of ts
IsActiveViewOf(v, ts) ==
  /\ Len(v) = Cardinality(ActivePositions(ts))
  /\ \A k \in 1..Len(v) :
       \E i \in ActivePositions(ts) :
         /\ Cardinality({j \in ActivePositions(ts) : j <= i}) = k
         /\ v[k] = ts[i]

\* C1: once the status of a record is 'deleted', no operation of the service
\* changes it to another status.
C1_DeletedStaysDeleted ==
  [][\A i \in Positions(todos) :
       todos[i].status = "deleted" =>
         /\ i \in Positions(todos')
         /\ todos'[i].status = "deleted"]_vars

\* C2: no two records of the collection have the same id, and the id that
\* addTodo gives next is the id of no record of the collection.
C2_UniqueIds ==
  /\ \A i, j \in Positions(todos) : todos[i].id = todos[j].id => i = j
  /\ ToString(nextId) \notin IdsOf(todos)

\* C2 witness: addTodo has given the third record its id.
C2_Witness ==
  /\ lastCall = "addTodo"
  /\ Len(todos) = 3
  /\ todos[3].id = "3"

\* C3: addTodo(request) appends one record with status 'open', the title and
\* the description of the request and an id no record had; the records that
\* were there keep their values and positions; the full list and the active
\* list each grow by one.
C3_AddTodoAppendsOne ==
  [][\A request \in AddRequests, now \in Dates :
       addTodo(request, now) =>
         /\ Len(todos') = Len(todos) + 1
         /\ SubSeq(todos', 1, Len(todos)) = todos
         /\ Last(todos').status = "open"
         /\ Last(todos').title = request.title
         /\ Last(todos').description = request.description
         /\ Last(todos').id \notin IdsOf(todos)
         /\ Cardinality(ActivePositions(todos')) =
              Cardinality(ActivePositions(todos)) + 1]_vars

\* C3 witness: addTodo has appended the second request to a collection that
\* held a deleted record, and an observer of activeTodos$ has received the
\* two records that are not deleted.
C3_Witness ==
  /\ lastCall = "addTodo"
  /\ Len(todos) = 3
  /\ todos[1].status = "deleted"
  /\ todos[3].title = <<" ", "b">>
  /\ todos[3].status = "open"
  /\ subscription["o1"] = "activeTodos$"
  /\ Len(seen["o1"][1]) = 2

\* C4: updateTodo(id, updates) gives the fields present in updates their new
\* values in the record with that id and changes nothing else: the fields
\* absent from updates, the id and the creationDate of that record, and every
\* other record keep their values.
C4_UpdateTodoFrame ==
  [][\A id \in Ids, updates \in UpdateRequests :
       updateTodo(id, updates) =>
         /\ Len(todos') = Len(todos)
         /\ \A i \in Positions(todos) :
              IF todos[i].id = id
              THEN /\ DOMAIN todos'[i] = DOMAIN todos[i]
                   /\ \A f \in DOMAIN updates : todos'[i][f] = updates[f]
                   /\ \A f \in DOMAIN todos[i] \ DOMAIN updates :
                        todos'[i][f] = todos[i][f]
                   /\ todos'[i].id = todos[i].id
                   /\ todos'[i].creationDate = todos[i].creationDate
              ELSE todos'[i] = todos[i]]_vars

\* C4 witness: updateTodo has changed the title of the first record alone.
C4_Witness ==
  /\ lastCall = "updateTodo"
  /\ todos[1].title = TitleX
  /\ todos[1].description = LearnAngularDescription
  /\ todos[1].status = "open"
  /\ todos[2] = SampleTodos[2]

\* C5: toggleTodoStatus(id) turns 'open' into 'done' and 'done' into 'open'
\* in the records with that id and changes nothing else; when the record is
\* deleted or no record has the id the collection is unchanged.
C5_ToggleFlips ==
  [][\A id \in Ids :
       lastCall' = "toggleTodoStatus" /\ toggleTodoStatus(id) =>
         /\ Len(todos') = Len(todos)
         /\ \A i \in Positions(todos) :
              todos'[i] =
                IF todos[i].id = id /\ todos[i].status = "open"
                THEN [todos[i] EXCEPT !.status = "done"]
                ELSE IF todos[i].id = id /\ todos[i].status = "done"
                THEN [todos[i] EXCEPT !.status = "open"]
                ELSE todos[i]
         /\ (\A i \in Positions(todos) :
                todos[i].id = id => todos[i].status = "deleted")
              => todos' = todos]_vars

\* C5 witness: toggleTodoStatus has run while the first record is done (it
\* was seeded open) and the second is deleted.
C5_Witness ==
  /\ lastCall = "toggleTodoStatus"
  /\ todosNexts = 1
  /\ todos[1].status = "done"
  /\ todos[2].status = "deleted"

\* C6: deleteTodo(id) on an existing record sets its status to 'deleted';
\* the record is then in no value of activeTodos$ and still at its position
\* in the full list, whose length is unchanged.
C6_DeleteTodoSoftDeletes ==
  [][\A id \in Ids :
       lastCall' = "deleteTodo" /\ HasId(todos, id) /\ deleteTodo(id) =>
         /\ Len(todos') = Len(todos)
         /\ \A i \in Positions(todos) :
              /\ todos'[i].id = todos[i].id
              /\ todos[i].id = id => todos'[i].status = "deleted"
         /\ id \notin IdsOf(View("activeTodos$", todos', selectedTodo'))
         /\ \A o \in Observers :
              /\ subscription[o] = "activeTodos$" => id \notin IdsOf(seen'[o][1])
              /\ subscription[o] = "todos$" =>
                   /\ Len(seen'[o][1]) = Len(todos)
                   /\ \A i \in Positions(todos) :
                        seen'[o][1][i].id = todos[i].id]_vars

\* C6 witness: deleteTodo has deleted the first record while one observer
\* watches activeTodos$ and the other todos$.
C6_Witness ==
  /\ lastCall = "deleteTodo"
  /\ todos[1].status = "deleted"
  /\ subscription["o1"] = "activeTodos$"
  /\ subscription["o2"] = "todos$"
  /\ Len(seen["o1"][1]) = 1
  /\ Len(seen["o2"][1]) = 2

\* C7: updateTodo and deleteTodo with an id that no record has leave the
\* collection as it was.
C7_MissingIdChangesNothing ==
  [][\A id \in Ids :
       lastCall' \in {"updateTodo", "deleteTodo"} /\ ~ HasId(todos, id) =>
         /\ \A updates \in StatusRequests :
              updateTodo(id, updates) => todos' = todos
         /\ deleteTodo(id) => todos' = todos]_vars

\* C7 witness: deleteTodo has run and the collection is the seeded one, whose
\* records are not deleted: the id matched no record.
C7_Witness ==
  /\ lastCall = "deleteTodo"
  /\ todosNexts = 1
  /\ todos = SampleTodos

\* C8: deleteTodo(id) twice gives the collection that deleteTodo(id) once
\* gives, and the records with the id are deleted after each call.
C8_DeleteTodoIdempotent ==
  \A id \in Ids :
    LET once  == Last(deleteTodoEmits(todos, id))
        twice == Last(deleteTodoEmits(once, id))
    IN  /\ twice = once
        /\ \A i \in Positions(once) :
             once[i].id = id =>
               once[i].status = "deleted" /\ twice[i].status = "deleted"

\* C8 witness: deleteTodo has deleted the first record.
C8_Witness ==
  /\ lastCall = "deleteTodo"
  /\ todos[1].status = "deleted"
  /\ todos[2].status = "done"

\* C9: the last value an observer of activeTodos$ received is the collection
\* without its deleted records, in the order of the collection.
C9_ActiveViewIsFilter ==
  \A o \in Observers :
    subscription[o] = "activeTodos$" =>
      /\ Len(seen[o]) = 1
      /\ IsActiveViewOf(seen[o][1], todos)

\* C9 witness: an observer of activeTodos$ has received, after a deleteTodo,
\* a value shorter than the collection.
C9_Witness ==
  /\ lastCall = "deleteTodo"
  /\ subscription["o1"] = "activeTodos$"
  /\ Len(todos) = 3
  /\ todos[2].status = "deleted"
  /\ Len(seen["o1"][1]) = 2

\* C10: each call of addTodo, updateTodo and deleteTodo, and of
\* toggleTodoStatus on an existing record that is not deleted, hands each
\* current subscriber of todos$ one value within the call, and that value is
\* the collection as the call leaves it.
C10_OneEmissionPerCall ==
  [][(\/ lastCall' \in {"addTodo", "updateTodo", "deleteTodo"}
      \/ \E id \in Ids :
           /\ toggleTodoStatus(id)
           /\ \E i \in Positions(todos) :
                todos[i].id = id /\ todos[i].status # "deleted")
     => \A o \in Observers :
          subscription[o] = "todos$" =>
            /\ got'[o] = 1
            /\ seen'[o] = <<todos'>>]_vars

\* C10 witness: both observers are subscribed to todos$ and each received
\* one value in a toggleTodoStatus.
C10_Witness ==
  /\ lastCall = "toggleTodoStatus"
  /\ todosNexts = 1
  /\ \A o \in Observers :
       subscription[o] = "todos$" /\ got[o] = 1 /\ seen[o] = <<todos>>

\* C11: an observer that subscribes to todos$, activeTodos$ or selectedTodo$
\* receives at once one value: the collection, the collection without its
\* deleted records, or the selected value, as they are when it subscribes.
C11_LateSubscriberGetsCurrent ==
  lastCall = "subscribe" =>
    /\ \E o \in Observers : got[o] = 1
    /\ \A o \in Observers :
         got[o] = 1 =>
           /\ subscription[o] \in Streams
           /\ Len(seen[o]) = 1
           /\ subscription[o] = "todos$" => seen[o][1] = todos
           /\ subscription[o] = "activeTodos$" => IsActiveViewOf(seen[o][1], todos)
           /\ subscription[o] = "selectedTodo$" => seen[o][1] = selectedTodo

\* C11 witness: an observer has subscribed to selectedTodo$ after a todo was
\* selected and the record deleted, the other to activeTodos$ before.
C11_Witness ==
  /\ lastCall = "subscribe"
  /\ subscription["o1"] = "selectedTodo$"
  /\ got["o1"] = 1
  /\ selectedTodo # Null
  /\ seen["o1"] = <<selectedTodo>>
  /\ subscription["o2"] = "activeTodos$"
  /\ Len(seen["o2"][1]) = 1

\* C12: no operation removes or moves a record: the collection keeps every
\* record at its position, only addTodo makes it longer, by one record put
\* last, and the records are in the order of their creation (the i-th record
\* has the i-th id the service gave).
C12_GrowsInCreationOrder ==
  [][/\ Len(todos') >= Len(todos)
     /\ \A i \in Positions(todos) : todos'[i].id = todos[i].id
     /\ Len(todos') # Len(todos) =>
          lastCall' = "addTodo" /\ Len(todos') = Len(todos) + 1
     /\ \A i \in Positions(todos') : todos'[i].id = ToString(i)]_vars

\* C12 witness: a record was added and then deleted, and the full list
\* still has three records.
C12_Witness ==
  /\ lastCall = "deleteTodo"
  /\ Len(todos) = 3
  /\ todos[3].status = "deleted"
  /\ todos[1].status = "done"

\* C13: selectTodo and clearSelectedTodo leave the collection unchanged and
\* give todosSubject no value; addTodo, updateTodo, deleteTodo and
\* toggleTodoStatus leave the selected value unchanged and give
\* selectedTodoSubject no value.
C13_SelectionIndependent ==
  [][/\ lastCall' \in {"selectTodo", "clearSelectedTodo"} =>
          todos' = todos /\ todosNexts' = 0
     /\ lastCall' \in {"addTodo", "updateTodo", "deleteTodo", "toggleTodoStatus"} =>
          selectedTodo' = selectedTodo /\ selectedNexts' = 0]_vars

\* C13 witness: deleteTodo has deleted the record whose copy is selected.
C13_Witness ==
  /\ lastCall = "deleteTodo"
  /\ selectedTodo # Null
  /\ selectedTodo.id = "1"
  /\ selectedTodo.status = "open"
  /\ todos[1].status = "deleted"

\* C14: the record at a position of the collection keeps its id and its
\* creationDate in every step.
C14_IdAndDateImmutable ==
  [][\A i \in Positions(todos) :
       /\ i \in Positions(todos')
       /\ todos'[i].id = todos[i].id
       /\ todos'[i].creationDate = todos[i].creationDate]_vars

\* C14 witness: updateSelectedTodo has changed the status of the added
\* record, which keeps the id and the date addTodo gave it.
C14_Witness ==
  /\ lastCall = "updateSelectedTodo"
  /\ Len(todos) = 3
  /\ todos[3].status = "done"
  /\ todos[3].id = "3"
  /\ todos[3].creationDate = 20240118

\* C15: after the constructor the collection is the record '1', 'Learn
\* Angular', open, followed by the record '2', 'Buy groceries', done, and no
\* todo is selected; the counter is always the number of records + 1, so the
\* n-th addTodo gives the id 2 + n.
C15_SeedAndCounter ==
  /\ lastCall = "constructor" =>
       /\ Len(todos) = 2
       /\ todos[1].id = "1" /\ todos[1].title = LearnAngular
       /\ todos[1].status = "open"
       /\ todos[2].id = "2" /\ todos[2].title = BuyGroceries
       /\ todos[2].status = "done"
       /\ selectedTodo = Null
  /\ nextId = Len(todos) + 1
  /\ \A n \in 1..(Len(todos) - 2) : todos[2 + n].id = ToString(2 + n)

\* C15 witness: the first addTodo has given the id '3' and the counter is 4.
C15_Witness ==
  /\ lastCall = "addTodo"
  /\ nextId = 4
  /\ todos[3].id = "3"
  /\ todos[3].title = <<"a">>

\* C20: after updateSelectedTodo with a todo selected, the selected value is
\* equal, field for field, to the record of the collection with its id.
C20_SelectedEqualsRecord ==
  lastCall = "updateSelectedTodo" /\ selectedTodo # Null =>
    \E i \in Positions(todos) :
      todos[i].id = selectedTodo.id /\ todos[i] = selectedTodo

\* the text has no character but whitespace
IsBlank(text) == \A i \in 1..Len(text) : text[i] \in Whitespace

\* the draft has a blank title or a blank description
DraftIsBlank(d) == IsBlank(d.editForm.title) \/ IsBlank(d.editForm.description)

\* C16: saveTodo with a draft whose title or description is blank calls
\* neither addTodo nor updateTodo (nothing is passed to todosSubject.next) and
\* leaves the collection and the counter as they were; every record that a
\* saveTodo adds or changes has a title and a description that are not blank.
C16_BlankDraftSavesNothing ==
  [][lastCall' = "saveTodo" =>
       /\ DraftIsBlank(detail) =>
            /\ todosNexts' = 0
            /\ todos' = todos
            /\ nextId' = nextId
       /\ \A i \in Positions(todos') :
            i > Len(todos) \/ todos'[i] # todos[i] =>
              /\ ~ IsBlank(todos'[i].title)
              /\ ~ IsBlank(todos'[i].description)]_vars

\* C16 witness: saveTodo has run on a draft with a blank title and a
\* description that is not blank, and nothing was emitted.
C16_Witness ==
  /\ lastCall = "saveTodo"
  /\ detail # Closed
  /\ detail.editForm.title = <<" ">>
  /\ ~ IsBlank(detail.editForm.description)
  /\ todosNexts = 0

\* the component shows a todo that the collection holds
ShowsStoredTodo ==
  /\ detail # Closed
  /\ ~ detail.isNewTodo
  /\ HasId(todos, TargetId(detail))

\* C17: after cancelEditing on an existing todo the draft holds the title,
\* description and status of the stored todo, isEditing is false and nothing
\* was emitted on the collection.
C17_CancelRestoresStored ==
  lastCall = "cancelEditing" /\ ShowsStoredTodo =>
    /\ detail.editForm = FormOf(FindTodo(todos, TargetId(detail)))
    /\ ~ detail.isEditing
    /\ todosNexts = 0

\* C18: the navigation of onTodoClick and of onAddNewTodo ends at the detail
\* component.
C18_NavigationReachesDetail ==
  lastCall \in {"onTodoClick", "onAddNewTodo"} =>
    routed.component = "TodoDetailComponent"

\* C19: after a saveTodo that updated an existing todo in the component that
\* reads selectedTodo$, the todo that todo$ holds has the saved title,
\* description and status.
C19_RenderedTodoIsSaved ==
  /\ lastCall = "saveTodo"
  /\ detail.kind = "selection"
  /\ todosNexts = 1
  => /\ selectedTodo # Null
     /\ FormOf(TodoOf(detail, todos, selectedTodo)) = UpdateRequestOf(detail)

\* C21: deleteSelectedTodo with a todo selected gives the status 'deleted' to
\* the records with the id of the selected todo, leaves the other records as
\* they were, passes one collection to todosSubject and then null to
\* selectedTodoSubject; with no todo selected it changes neither the
\* collection nor the selection and passes nothing to either subject.
C21_DeleteSelectedTodo ==
  [][lastCall' = "deleteSelectedTodo" =>
       IF selectedTodo # Null
       THEN /\ Len(todos') = Len(todos)
            /\ \A i \in Positions(todos) :
                 IF todos[i].id = selectedTodo.id
                 THEN todos'[i] = [todos[i] EXCEPT !.status = "deleted"]
                 ELSE todos'[i] = todos[i]
            /\ selectedTodo' = Null
            /\ todosNexts' = 1
            /\ selectedNexts' = 1
       ELSE /\ todos' = todos
            /\ selectedTodo' = Null
            /\ todosNexts' = 0
            /\ selectedNexts' = 0]_vars

\* C21 witness: deleteSelectedTodo has run with the first todo selected: the
\* record is deleted, the selection is null and an observer of selectedTodo$
\* has received null.
C21_Witness ==
  /\ lastCall = "deleteSelectedTodo"
  /\ selectedNexts = 1
  /\ todos[1].status = "deleted"
  /\ selectedTodo = Null
  /\ \E o \in Observers : OnSelected(o) /\ seen[o] = <<Null>>

\* the operations by which the user changes the draft
UserInputs == {"inputTitle", "inputDescription", "inputStatus"}

\* C22: in a step that starts and ends with the detail component editing and
\* that is not a user input, the draft is left as it was.
C22_DraftChangesOnlyByInput ==
  [][/\ lastCall' \notin UserInputs
     /\ detail # Closed /\ detail.isEditing
     /\ detail' # Closed /\ detail'.isEditing
     => detail'.editForm = detail.editForm]_vars

====
